---- MODULE Spec2Model ----
(***************************************************************************)
(* Model of the semantic analyzer and of the scanner of the Compilador     *)
(* repository (src/analisadores.py, classes AnalisadorSemantico and        *)
(* AnalisadorLexico; src/Compilador/lexer.py holds the same scanner).      *)
(*                                                                         *)
(* A program is a sequence of node records (the dicts the analyzer is      *)
(* handed).  An exception ErroSemantico is modelled by its kind: every     *)
(* raise statement of the source maps to one error constant below.         *)
(***************************************************************************)
EXTENDS Integers, Sequences, FiniteSets, TLC

VARIABLES programa,                 \* lista_de_elementos of the running call
          fase,                     \* position inside checar_programa
          i,                        \* index of the next element of the current pass
          tabela_funcoes,           \* self.tabela_funcoes
          tabela_proceds,           \* self.tabela_proceds
          escopos,                  \* self.escopos
          funcbodies_encontrados,   \* local set of checar_programa
          procbodies_encontrados,   \* local set of checar_programa
          resultado,                \* outcome of the last finished call
          sujo,                     \* the running call began on a stack deeper than 1
          codigo,                   \* self.codigo of the scanner
          tokens,                   \* self.tokens
          linha,                    \* self.linha
          coluna,                   \* self.coluna
          pos,                      \* where finditer looks for the next match
          lexfase,                  \* position inside the scanner's life
          chamadas                  \* calls of analisar() made on the scanner

semantico == <<programa, fase, i, tabela_funcoes, tabela_proceds, escopos,
               funcbodies_encontrados, procbodies_encontrados, resultado, sujo>>

lexico == <<codigo, tokens, linha, coluna, pos, lexfase, chamadas>>

vars == <<programa, fase, i, tabela_funcoes, tabela_proceds, escopos,
          funcbodies_encontrados, procbodies_encontrados, resultado, sujo,
          codigo, tokens, linha, coluna, pos, lexfase, chamadas>>

----------------------------------------------------------------------------
(* Types and error kinds *)

Tipos == {"int", "boolean"}

OK == "ok"

\* one constant per raise statement family of the source
EmptyExpression        == "EmptyExpression"
UndeclaredVariable     == "UndeclaredVariable"
TypeMismatch           == "TypeMismatch"
UnknownOperator        == "UnknownOperator"
InvalidExpression      == "InvalidExpression"
WrongArgCount          == "WrongArgCount"
ArgTypeMismatch        == "ArgTypeMismatch"
ProcedureUsedAsValue   == "ProcedureUsedAsValue"
UndeclaredCallee       == "UndeclaredCallee"
DuplicateDeclaration   == "DuplicateDeclaration"
DuplicateSignature     == "DuplicateSignature"
BodyWithoutDeclaration == "BodyWithoutDeclaration"
NonBooleanCondition    == "NonBooleanCondition"
ReturnInProcedure      == "ReturnInProcedure"
ReturnTypeMismatch     == "ReturnTypeMismatch"
MissingReturn          == "MissingReturn"
ReturnOutsideBody      == "ReturnOutsideBody"
UnknownJump            == "UnknownJump"
MissingBody            == "MissingBody"

----------------------------------------------------------------------------
(* Node constructors: the dict shapes the analyzer reads *)

NoExpr == [kind |-> "none"]                               \* Python None
Lit(t) == [kind |-> "lit", tipo |-> t]
Var(n) == [kind |-> "var", nome |-> n]
Unop(o, e) == [kind |-> "unop", op |-> o, expr |-> e]
Binop(o, l, r) == [kind |-> "binop", op |-> o, left |-> l, right |-> r]
CallE(n, as) == [kind |-> "call", nome |-> n, args |-> as]

VarDecl(t, n, e) == [kind |-> "vardecl", tipo |-> t, nome |-> n, expr |-> e]
FuncDecl(t, n, ps) == [kind |-> "funcdecl", tipo |-> t, nome |-> n, params |-> ps]
ProcDecl(n, ps) == [kind |-> "procdecl", nome |-> n, params |-> ps]
FuncBody(n, ps, b) == [kind |-> "funcbody", nome |-> n, params |-> ps, body |-> b]
ProcBody(n, ps, b) == [kind |-> "procbody", nome |-> n, params |-> ps, body |-> b]
Assign(n, e) == [kind |-> "assign", nome |-> n, expr |-> e]
Call(n, as) == [kind |-> "call", nome |-> n, args |-> as]
Return(e) == [kind |-> "return", expr |-> e]
\* an if without else: elem["else"] absent or None
If(c, b) == [kind |-> "if", cond |-> c, body |-> b, tem_else |-> FALSE, senao |-> <<>>]
IfElse(c, b, e) == [kind |-> "if", cond |-> c, body |-> b, tem_else |-> TRUE, senao |-> e]
While(c, b) == [kind |-> "while", cond |-> c, body |-> b]
PrintS(e) == [kind |-> "print", expr |-> e]
Jump(o) == [kind |-> "jump", op |-> o]

----------------------------------------------------------------------------
(* The analyzer object: self *)

EscopoVazio == [n \in {} |-> "int"]
\* tabela_funcoes: nome -> (tipo_retorno, params); tabela_proceds: nome -> params
TabelaVazia == [n \in {} |-> [tipo |-> "int", params |-> <<>>]]
TabelaProcVazia == [n \in {} |-> <<>>]

\* AnalisadorSemantico.__init__
NovoAnalisador == [tabela_funcoes |-> TabelaVazia,
                   tabela_proceds |-> TabelaProcVazia,
                   escopos |-> <<EscopoVazio>>]

abrir_escopo(self) == [self EXCEPT !.escopos = Append(@, EscopoVazio)]

fechar_escopo(self) ==
    IF Len(self.escopos) = 1 THEN self
    ELSE [self EXCEPT !.escopos = SubSeq(@, 1, Len(@) - 1)]

\* returns [self, err]
declarar_variavel_atual(self, nome, tipo) ==
    LET topo == Len(self.escopos)
        escopo_atual == self.escopos[topo]
    IN IF nome \in DOMAIN escopo_atual
       THEN [self |-> self, err |-> DuplicateDeclaration]
       ELSE [self |-> [self EXCEPT !.escopos[topo] = (nome :> tipo) @@ escopo_atual],
             err |-> OK]

Nenhum == "None"

RECURSIVE buscar_em(_, _, _)
buscar_em(escs, k, nome) ==
    IF k = 0 THEN Nenhum
    ELSE IF nome \in DOMAIN escs[k] THEN escs[k][nome]
    ELSE buscar_em(escs, k - 1, nome)

buscar_variavel(self, nome) == buscar_em(self.escopos, Len(self.escopos), nome)

\* returns [self, err]
registrar_funcao(self, nome, tipo_retorno, params) ==
    IF nome \in DOMAIN self.tabela_funcoes \/ nome \in DOMAIN self.tabela_proceds
    THEN [self |-> self, err |-> DuplicateSignature]
    ELSE [self |-> [self EXCEPT !.tabela_funcoes =
                        (nome :> [tipo |-> tipo_retorno, params |-> params]) @@ @],
          err |-> OK]

\* variant: the procedure registration looks only at the procedure table
registrar_procedimento_so_proceds(self, nome, params) ==
    IF nome \in DOMAIN self.tabela_proceds
    THEN [self |-> self, err |-> DuplicateSignature]
    ELSE [self |-> [self EXCEPT !.tabela_proceds = (nome :> params) @@ @],
          err |-> OK]

registrar_procedimento(self, nome, params) ==
    IF nome \in DOMAIN self.tabela_funcoes \/ nome \in DOMAIN self.tabela_proceds
    THEN [self |-> self, err |-> DuplicateSignature]
    ELSE [self |-> [self EXCEPT !.tabela_proceds =
                        (nome :> params) @@ @],
          err |-> OK]

----------------------------------------------------------------------------
(* Expression type evaluator.  The result is a type, or the kind of the    *)
(* ErroSemantico raised.  An exception raised while a sub-expression is    *)
(* evaluated propagates: the operators below that take the type of a       *)
(* sub-expression return it unchanged when it is an error.                 *)

Aritmeticos == {"+", "-", "*", "/"}
Relacionais == {"==", "!=", ">", "<", ">=", "<="}
Logicos     == {"&&", "||"}

\* the var branch, given the result of buscar_variavel
tipo_var(tipo) == IF tipo = Nenhum THEN UndeclaredVariable ELSE tipo

\* the unop branch, given the result for the operand
tipo_unop(op, t) ==
    IF t \notin Tipos THEN t
    ELSE IF op = "!" THEN (IF t # "boolean" THEN TypeMismatch ELSE "boolean")
    ELSE UnknownOperator

\* variant: the relational branch does not compare the operand types
tipo_binop_sem_comparacao(op, tleft, tright) ==
    IF op \in Aritmeticos THEN
        (IF tleft # "int" \/ tright # "int" THEN TypeMismatch ELSE "int")
    ELSE IF op \in Relacionais THEN "boolean"
    ELSE IF op \in Logicos THEN
        (IF tleft # "boolean" \/ tright # "boolean" THEN TypeMismatch ELSE "boolean")
    ELSE UnknownOperator

\* the operator rules of the binop branch, once both operand types are known
tipo_binop(op, tleft, tright) ==
    IF op \in Aritmeticos THEN
        (IF tleft # "int" \/ tright # "int" THEN TypeMismatch ELSE "int")
    ELSE IF op \in Relacionais THEN
        (IF tleft # tright THEN TypeMismatch ELSE "boolean")
    ELSE IF op \in Logicos THEN
        (IF tleft # "boolean" \/ tright # "boolean" THEN TypeMismatch ELSE "boolean")
    ELSE UnknownOperator

\* the binop branch: left operand, then right operand, then the operator rules
tipo_binop_operandos(op, tleft, tright) ==
    IF tleft \notin Tipos THEN tleft
    ELSE IF tright \notin Tipos THEN tright
    ELSE tipo_binop(op, tleft, tright)

\* one iteration of the argument loop: t is the type of the argument,
\* resto the outcome of the remaining iterations
tipo_argumento(t, esperado, resto) ==
    IF t \notin Tipos THEN t
    ELSE IF t # esperado THEN ArgTypeMismatch
    ELSE resto

\* "if len(params) != len(args): raise", before the argument loop
checar_aridade(params, args, resto) ==
    IF Len(params) # Len(args) THEN WrongArgCount ELSE resto

\* a call in an expression has the function's return type once its arguments pass
valor_da_chamada(r, tipo_retorno) == IF r # OK THEN r ELSE tipo_retorno

RECURSIVE avaliar_expressao_tipo(_, _)
RECURSIVE checar_argumentos(_, _, _, _)
RECURSIVE _checar_chamada_em_expressao(_, _)

avaliar_expressao_tipo(self, expr) ==
    IF expr.kind = "none" THEN EmptyExpression
    ELSE IF expr.kind = "lit" THEN expr.tipo
    ELSE IF expr.kind = "var" THEN tipo_var(buscar_variavel(self, expr.nome))
    ELSE IF expr.kind = "unop" THEN
        tipo_unop(expr.op, avaliar_expressao_tipo(self, expr.expr))
    ELSE IF expr.kind = "binop" THEN
        tipo_binop_operandos(expr.op,
                             avaliar_expressao_tipo(self, expr.left),
                             avaliar_expressao_tipo(self, expr.right))
    ELSE IF expr.kind = "call" THEN _checar_chamada_em_expressao(self, expr)
    ELSE InvalidExpression

\* the loop "for idx, arg in enumerate(args)" from idx on: OK, or the first error
checar_argumentos(self, params, args, idx) ==
    IF idx > Len(args) THEN OK
    ELSE tipo_argumento(avaliar_expressao_tipo(self, args[idx]),
                        params[idx][1],
                        checar_argumentos(self, params, args, idx + 1))

_checar_chamada_em_expressao(self, expr) ==
    IF expr.nome \in DOMAIN self.tabela_funcoes THEN
        checar_aridade(self.tabela_funcoes[expr.nome].params, expr.args,
            valor_da_chamada(
                checar_argumentos(self, self.tabela_funcoes[expr.nome].params, expr.args, 1),
                self.tabela_funcoes[expr.nome].tipo))
    ELSE IF expr.nome \in DOMAIN self.tabela_proceds THEN ProcedureUsedAsValue
    ELSE UndeclaredCallee

\* variant: the argument count is compared with < instead of !=
_checar_chamada_aridade_frouxa(self, nome, args) ==
    IF nome \in DOMAIN self.tabela_funcoes THEN
        IF Len(args) < Len(self.tabela_funcoes[nome].params) THEN WrongArgCount
        ELSE checar_argumentos(self, self.tabela_funcoes[nome].params,
                               SubSeq(args, 1, Len(self.tabela_funcoes[nome].params)), 1)
    ELSE IF nome \in DOMAIN self.tabela_proceds THEN
        IF Len(args) < Len(self.tabela_proceds[nome]) THEN WrongArgCount
        ELSE checar_argumentos(self, self.tabela_proceds[nome],
                               SubSeq(args, 1, Len(self.tabela_proceds[nome])), 1)
    ELSE UndeclaredCallee

\* OK, or the error raised
_checar_chamada_como_comando(self, nome, args) ==
    IF nome \in DOMAIN self.tabela_funcoes THEN
        checar_aridade(self.tabela_funcoes[nome].params, args,
            checar_argumentos(self, self.tabela_funcoes[nome].params, args, 1))
    ELSE IF nome \in DOMAIN self.tabela_proceds THEN
        checar_aridade(self.tabela_proceds[nome], args,
            checar_argumentos(self, self.tabela_proceds[nome], args, 1))
    ELSE UndeclaredCallee

----------------------------------------------------------------------------
(* Statement checkers.  Each returns [self, err]: the analyzer as the      *)
(* statement leaves it (an exception leaves the scopes it had pushed) and  *)
(* OK or the kind of the error raised.  The body loop of                   *)
(* _checar_corpo_funcional repeats the branches of checar_elemento for     *)
(* every kind but return, so it is modelled with checar_elemento.          *)

Res(self, err) == [self |-> self, err |-> err]

\* tvar: the result of buscar_variavel; texpr: the result for the expression
tipos_do_assign(tvar, texpr) ==
    IF tvar = Nenhum THEN UndeclaredVariable
    ELSE IF texpr \notin Tipos THEN texpr
    ELSE IF tvar # texpr THEN TypeMismatch
    ELSE OK

_checar_assign(self, elem) ==
    tipos_do_assign(buscar_variavel(self, elem.nome),
                    avaliar_expressao_tipo(self, elem.expr))

\* the check of an initializer of type t against the declared type
checar_inicializacao(t, tipo) ==
    IF t \notin Tipos THEN t
    ELSE IF t # tipo THEN TypeMismatch
    ELSE OK

\* the vardecl branch after declarar_variavel_atual returned d
apos_declarar(d, elem) ==
    IF d.err # OK THEN d
    ELSE IF elem.expr.kind = "none" THEN d
    ELSE Res(d.self,
             checar_inicializacao(avaliar_expressao_tipo(d.self, elem.expr), elem.tipo))

checar_vardecl_local(self, elem) ==
    apos_declarar(declarar_variavel_atual(self, elem.nome, elem.tipo), elem)

tipo_condicao(tcond) ==
    IF tcond \notin Tipos THEN tcond
    ELSE IF tcond # "boolean" THEN NonBooleanCondition
    ELSE OK

\* the condition of an if/while: OK or the error
checar_condicao(self, cond) == tipo_condicao(avaliar_expressao_tipo(self, cond))

\* the outcome of evaluating an expression whose type is not used
so_avaliar(t) == IF t \notin Tipos THEN t ELSE OK

RECURSIVE checar_elemento(_, _)
RECURSIVE checar_comandos(_, _, _)

\* r: the result of checar_elemento on cmds[k]
proximo_comando(r, cmds, k) ==
    IF r.err # OK THEN r ELSE checar_comandos(r.self, cmds, k + 1)

\* "for c in cmds: self.checar_elemento(c)" from index k on
checar_comandos(self, cmds, k) ==
    IF k > Len(cmds) THEN Res(self, OK)
    ELSE proximo_comando(checar_elemento(self, cmds[k]), cmds, k)

\* fechar_escopo is reached only when the loop raised nothing
fechar_bloco(r) == IF r.err # OK THEN r ELSE Res(fechar_escopo(r.self), OK)

\* abrir_escopo; for c in cmds: checar_elemento(c); fechar_escopo
checar_bloco(self, cmds) == fechar_bloco(checar_comandos(abrir_escopo(self), cmds, 1))

\* b: the result of the body block
apos_corpo(b, elem) ==
    IF b.err # OK THEN b
    ELSE IF elem.kind = "if" /\ elem.tem_else THEN checar_bloco(b.self, elem.senao)
    ELSE b

\* c: the result of the condition
apos_condicao(self, c, elem) ==
    IF c # OK THEN Res(self, c) ELSE apos_corpo(checar_bloco(self, elem.body), elem)

\* the if and while branches of checar_elemento and of the body loop
checar_if_while(self, elem) == apos_condicao(self, checar_condicao(self, elem.cond), elem)

checar_elemento(self, elem) ==
    IF elem.kind = "assign" THEN Res(self, _checar_assign(self, elem))
    ELSE IF elem.kind = "call" THEN
        Res(self, _checar_chamada_como_comando(self, elem.nome, elem.args))
    ELSE IF elem.kind = "vardecl" THEN checar_vardecl_local(self, elem)
    ELSE IF elem.kind \in {"if", "while"} THEN checar_if_while(self, elem)
    ELSE IF elem.kind = "print" THEN
        Res(self, so_avaliar(avaliar_expressao_tipo(self, elem.expr)))
    ELSE IF elem.kind = "jump" THEN
        Res(self, IF elem.op \notin {"break", "continue"} THEN UnknownJump ELSE OK)
    ELSE IF elem.kind = "return" THEN Res(self, ReturnOutsideBody)
    ELSE Res(self, OK)

RECURSIVE declarar_parametros(_, _, _)

proximo_parametro(d, params, k) ==
    IF d.err # OK THEN d ELSE declarar_parametros(d.self, params, k + 1)

\* "for tipo, pname in params: self.declarar_variavel_atual(pname, tipo)"
declarar_parametros(self, params, k) ==
    IF k > Len(params) THEN Res(self, OK)
    ELSE proximo_parametro(declarar_variavel_atual(self, params[k][2], params[k][1]),
                           params, k)

tipo_return(texpr, tipo_ret_esperado) ==
    IF texpr \notin Tipos THEN texpr
    ELSE IF texpr # tipo_ret_esperado THEN ReturnTypeMismatch
    ELSE OK

\* the return branch of the body loop: OK or the error
checar_return(self, nome, is_function, cmd) ==
    IF ~is_function THEN ReturnInProcedure
    ELSE tipo_return(avaliar_expressao_tipo(self, cmd.expr), self.tabela_funcoes[nome].tipo)

\* one statement of a body
comando_do_corpo(self, nome, is_function, cmd) ==
    IF cmd.kind = "return"
    THEN Res(self, checar_return(self, nome, is_function, cmd))
    ELSE checar_elemento(self, cmd)

RECURSIVE checar_corpo(_, _, _, _, _, _)

\* r: the result for body[k]; achou: encontrou_return after body[k]
proximo_do_corpo(r, nome, is_function, body, k, achou) ==
    IF r.err # OK
    THEN [self |-> r.self, err |-> r.err, encontrou_return |-> achou]
    ELSE checar_corpo(r.self, nome, is_function, body, k + 1, achou)

\* the loop "for cmd in body" of _checar_corpo_funcional from index k on;
\* returns [self, err, encontrou_return]
checar_corpo(self, nome, is_function, body, k, encontrou_return) ==
    IF k > Len(body)
    THEN [self |-> self, err |-> OK, encontrou_return |-> encontrou_return]
    ELSE proximo_do_corpo(comando_do_corpo(self, nome, is_function, body[k]),
                          nome, is_function, body, k,
                          encontrou_return \/ body[k].kind = "return")

\* variant: the scope pushed for the body is left on the stack
fim_do_corpo_sem_fechar(c, is_function) ==
    IF c.err # OK THEN Res(c.self, c.err)
    ELSE IF is_function /\ ~c.encontrou_return
         THEN Res(c.self, MissingReturn)
         ELSE Res(c.self, OK)

\* c: the result of the body loop
fim_do_corpo(c, is_function) ==
    IF c.err # OK THEN Res(c.self, c.err)
    ELSE IF is_function /\ ~c.encontrou_return
         THEN Res(fechar_escopo(c.self), MissingReturn)
         ELSE Res(fechar_escopo(c.self), OK)

\* p: the result of declaring the parameters
apos_parametros(p, elem, is_function) ==
    IF p.err # OK THEN p
    ELSE fim_do_corpo(checar_corpo(p.self, elem.nome, is_function, elem.body, 1, FALSE),
                      is_function)

\* variant: the body is checked under the parameter list of the declaration
_checar_corpo_com_lista_declarada(self, elem, is_function) ==
    apos_parametros(
        declarar_parametros(abrir_escopo(self),
            IF elem.nome \in DOMAIN self.tabela_funcoes
            THEN self.tabela_funcoes[elem.nome].params
            ELSE IF elem.nome \in DOMAIN self.tabela_proceds
            THEN self.tabela_proceds[elem.nome]
            ELSE <<>>,
            1),
        elem, is_function)

_checar_corpo_funcional(self, elem, is_function) ==
    apos_parametros(declarar_parametros(abrir_escopo(self), elem.params, 1),
                    elem, is_function)

----------------------------------------------------------------------------
(* checar_programa, element by element *)

\* variant: the scope stack is not recreated at the entry
limpa_ambiente_sem_escopos(self) == [tabela_funcoes |-> TabelaVazia,
                                     tabela_proceds |-> TabelaProcVazia,
                                     escopos |-> self.escopos]

\* "limpa ambiente": the three statements at the entry of checar_programa
limpa_ambiente(self) == [tabela_funcoes |-> TabelaVazia,
                         tabela_proceds |-> TabelaProcVazia,
                         escopos |-> <<EscopoVazio>>]

\* variant: the first loop leaves the procedure signatures to the second
primeiro_passe_elem_sem_procedimentos(self, elem) ==
    IF elem.kind = "vardecl" THEN
        IF elem.nome \in DOMAIN self.escopos[1]
        THEN Res(self, DuplicateDeclaration)
        ELSE Res([self EXCEPT !.escopos[1] = (elem.nome :> elem.tipo) @@ @], OK)
    ELSE IF elem.kind = "funcdecl" THEN
        registrar_funcao(self, elem.nome, elem.tipo, elem.params)
    ELSE Res(self, OK)

\* body of the first loop for one element; returns [self, err]
primeiro_passe_elem(self, elem) ==
    IF elem.kind = "vardecl" THEN
        IF elem.nome \in DOMAIN self.escopos[1]
        THEN Res(self, DuplicateDeclaration)
        ELSE Res([self EXCEPT !.escopos[1] = (elem.nome :> elem.tipo) @@ @], OK)
    ELSE IF elem.kind = "funcdecl" THEN
        registrar_funcao(self, elem.nome, elem.tipo, elem.params)
    ELSE IF elem.kind = "procdecl" THEN
        registrar_procedimento(self, elem.nome, elem.params)
    ELSE Res(self, OK)

\* b: the result of the body statements, checked in the current scope
apos_corpo_topo(b, elem) ==
    IF b.err # OK THEN b
    ELSE IF elem.kind = "if" /\ elem.tem_else THEN checar_comandos(b.self, elem.senao, 1)
    ELSE b

apos_condicao_topo(self, c, elem) ==
    IF c # OK THEN Res(self, c)
    ELSE apos_corpo_topo(checar_comandos(self, elem.body, 1), elem)

\* the top-level if/while branch of the second loop
checar_if_while_topo(self, elem) ==
    apos_condicao_topo(self, checar_condicao(self, elem.cond), elem)

\* the result r of one element together with the two body sets
Saida(r, funcbodies, procbodies) ==
    [self |-> r.self, err |-> r.err, funcbodies |-> funcbodies, procbodies |-> procbodies]

\* body of the second loop for one element;
\* returns [self, err, funcbodies, procbodies]
segundo_passe_elem(self, elem, funcbodies, procbodies) ==
    IF elem.kind = "vardecl" THEN
        IF elem.expr.kind = "none" THEN Saida(Res(self, OK), funcbodies, procbodies)
        ELSE Saida(Res(self, checar_inicializacao(avaliar_expressao_tipo(self, elem.expr),
                                                  elem.tipo)),
                   funcbodies, procbodies)
    ELSE IF elem.kind = "assign" THEN
        Saida(Res(self, _checar_assign(self, elem)), funcbodies, procbodies)
    ELSE IF elem.kind = "call" THEN
        Saida(Res(self, _checar_chamada_como_comando(self, elem.nome, elem.args)),
              funcbodies, procbodies)
    ELSE IF elem.kind = "funcbody" THEN
        IF elem.nome \notin DOMAIN self.tabela_funcoes
        THEN Saida(Res(self, BodyWithoutDeclaration), funcbodies, procbodies)
        ELSE Saida(_checar_corpo_funcional(self, elem, TRUE),
                   funcbodies \cup {elem.nome}, procbodies)
    ELSE IF elem.kind = "procbody" THEN
        IF elem.nome \notin DOMAIN self.tabela_proceds
        THEN Saida(Res(self, BodyWithoutDeclaration), funcbodies, procbodies)
        ELSE Saida(_checar_corpo_funcional(self, elem, FALSE),
                   funcbodies, procbodies \cup {elem.nome})
    ELSE IF elem.kind \in {"if", "while"} THEN
        Saida(checar_if_while_topo(self, elem), funcbodies, procbodies)
    ELSE Saida(checar_elemento(self, elem), funcbodies, procbodies)

\* variant: the closing loop over the procedure table is missing
verificar_corpos_so_funcoes(self, funcbodies, procbodies) ==
    IF \E fname \in DOMAIN self.tabela_funcoes : fname \notin funcbodies THEN MissingBody
    ELSE OK

\* the two closing loops: OK or MissingBody
verificar_corpos(self, funcbodies, procbodies) ==
    IF \E fname \in DOMAIN self.tabela_funcoes : fname \notin funcbodies THEN MissingBody
    ELSE IF \E pname \in DOMAIN self.tabela_proceds : pname \notin procbodies THEN MissingBody
    ELSE OK

RECURSIVE primeiro_passe(_, _, _)

proximo_do_primeiro_passe(r, P, k) ==
    IF r.err # OK THEN r ELSE primeiro_passe(r.self, P, k + 1)

\* the first loop from index k on; returns [self, err]
primeiro_passe(self, P, k) ==
    IF k > Len(P) THEN Res(self, OK)
    ELSE proximo_do_primeiro_passe(primeiro_passe_elem(self, P[k]), P, k)

RECURSIVE segundo_passe(_, _, _, _, _)

proximo_do_segundo_passe(r, P, k) ==
    IF r.err # OK THEN r
    ELSE segundo_passe(r.self, P, k + 1, r.funcbodies, r.procbodies)

\* the second loop from index k on; returns [self, err, funcbodies, procbodies]
segundo_passe(self, P, k, funcbodies, procbodies) ==
    IF k > Len(P) THEN Saida(Res(self, OK), funcbodies, procbodies)
    ELSE proximo_do_segundo_passe(segundo_passe_elem(self, P[k], funcbodies, procbodies),
                                  P, k)

apos_segundo_passe(r2) ==
    IF r2.err # OK THEN r2.err
    ELSE verificar_corpos(r2.self, r2.funcbodies, r2.procbodies)

apos_primeiro_passe(r1, P) ==
    IF r1.err # OK THEN r1.err
    ELSE apos_segundo_passe(segundo_passe(r1.self, P, 1, {}, {}))

\* one whole call on the analyzer self: OK, or the kind of the error raised
checar_programa(self, P) ==
    apos_primeiro_passe(primeiro_passe(limpa_ambiente(self), P, 1), P)

----------------------------------------------------------------------------
(* The programs handed to checar_programa *)

MaxTop == 2          \* elements appended to a context

T == Lit("boolean")
N == Lit("int")
PA == << <<"int", "a">> >>                 \* the parameter list (int a)

\* the program of the __main__ example
ExemploMain ==
    << VarDecl("int", "x", NoExpr),
       FuncDecl("int", "soma", << <<"int", "a">>, <<"int", "b">> >>),
       FuncBody("soma", << <<"int", "a">>, <<"int", "b">> >>,
                << Return(Binop("+", Var("a"), Var("b"))) >>),
       Assign("x", CallE("soma", <<N, N>>)),
       Call("print", << Var("x") >>) >>

\* programs whose uses come before the declarations they name
UsosAntesDasDeclaracoes ==
    { << Assign("x", CallE("f", <<N>>)),
         Call("p", <<N>>),
         FuncBody("f", PA, << Return(Var("a")) >>),
         ProcBody("p", PA, <<>>),
         VarDecl("int", "x", NoExpr),
         FuncDecl("int", "f", PA),
         ProcDecl("p", PA) >>,
      << VarDecl("int", "y", CallE("f", << Var("x") >>)),
         FuncBody("f", PA, << Return(CallE("f", << CallE("g", <<>>) >>)) >>),
         VarDecl("int", "x", NoExpr),
         FuncDecl("int", "f", PA),
         FuncDecl("int", "g", <<>>),
         FuncBody("g", <<>>, << Return(Var("x")) >>) >>,
      << Assign("x", T), VarDecl("int", "x", NoExpr) >>,
      << Call("f", <<>>), FuncDecl("int", "f", PA), FuncBody("f", PA, << Return(N) >>) >> }

PBC == << <<"boolean", "b">>, <<"int", "c">> >>     \* (boolean b, int c)

\* programs whose bodies re-state a parameter list other than the declared one
CorposDivergentes ==
    { << FuncDecl("int", "f", PA),
         FuncBody("f", PBC, << Return(Var("c")) >>),
         VarDecl("int", "x", NoExpr),
         Assign("x", CallE("f", <<N>>)) >>,
      << ProcDecl("p", PA), ProcBody("p", <<>>, <<>>), Call("p", <<N>>) >>,
      << FuncDecl("int", "f", PA),
         FuncBody("f", << <<"boolean", "a">> >>, << Return(Var("a")) >>) >>,
      << FuncDecl("int", "f", PA), FuncBody("f", <<>>, << Return(Var("a")) >>) >>,
      << FuncDecl("int", "f", PA),
         FuncBody("f", PBC, << Return(Var("c")) >>),
         Call("f", <<T, N>>) >> }

Exemplos == { ExemploMain,
              << VarDecl("int", "x", NoExpr), Assign("x", T) >>,
              << FuncDecl("int", "f", <<>>) >> } \cup UsosAntesDasDeclaracoes
            \cup CorposDivergentes

\* declaration prefixes
Contextos ==
    { <<>>,
      << VarDecl("int", "x", NoExpr), FuncDecl("int", "f", PA) >>,
      << VarDecl("int", "x", NoExpr), ProcDecl("p", PA) >>,
      << VarDecl("int", "x", NoExpr), FuncDecl("int", "f", PA),
         FuncBody("f", PA, << Return(Var("a")) >>) >>,
      << VarDecl("int", "x", NoExpr), ProcDecl("p", PA), ProcBody("p", PA, <<>>) >> }

Declaracoes ==
    { VarDecl("int", "x", NoExpr),
      FuncDecl("int", "f", PA),
      ProcDecl("f", PA) }

CorposFuncao ==
    { << Return(Var("a")) >>,
      <<>>,
      << VarDecl("boolean", "x", NoExpr), Return(Var("a")) >>,
      << If(T, << VarDecl("boolean", "x", NoExpr) >>), Return(Var("x")) >>,
      << IfElse(T, << Return(Var("a")) >>, << Return(Var("a")) >>) >> }

CorposProc ==
    { <<>>,
      << Return(Var("u")) >>,
      << While(T, << Return(Var("a")) >>) >> }

Corpos ==
    { FuncBody("f", PA, b) : b \in CorposFuncao } \cup
    { ProcBody("p", PA, b) : b \in CorposProc } \cup
    { ProcBody("f", PA, <<>>) }

Comandos ==
    { Assign("x", CallE("f", <<N>>)),
      Assign("x", CallE("f", <<Var("u"), T>>)),
      Assign("x", CallE("p", <<>>)),
      Call("f", <<T, Var("u")>>),
      Call("p", <<Var("u"), T>>),
      Call("p", <<N>>),
      While(T, << VarDecl("boolean", "x", NoExpr) >>),
      IfElse(T, << VarDecl("int", "y", NoExpr) >>, << Assign("y", N) >>),
      PrintS(Binop("+", Var("x"), Var("y"))) }

TopPool == Declaracoes \cup Corpos \cup Comandos

Caudas == UNION { [1..n -> TopPool] : n \in 0..MaxTop }

Programas == Exemplos \cup { k \o c : k \in Contextos, c \in Caudas }

----------------------------------------------------------------------------
(* The scanner (class AnalisadorLexico): texts are sequences of characters *)

Token(tipo, valor, lin, col) ==
    [tipo |-> tipo, valor |-> valor, linha |-> lin, coluna |-> col]

\* the scanner object right after AnalisadorLexico(texto)
NovoLexico(texto) ==
    [codigo |-> texto, tokens |-> <<>>, linha |-> 1, coluna |-> 1]

\* PALAVRAS_RESERVADAS, each with the token kind txt.upper() gives it
PALAVRAS_RESERVADAS ==
    { << <<"i", "n", "t">>, "INT" >>,
      << <<"b", "o", "o", "l", "e", "a", "n">>, "BOOLEAN" >>,
      << <<"p", "r", "o", "c", "e", "d", "u", "r", "e">>, "PROCEDURE" >>,
      << <<"i", "f">>, "IF" >>,
      << <<"e", "l", "s", "e">>, "ELSE" >>,
      << <<"w", "h", "i", "l", "e">>, "WHILE" >>,
      << <<"r", "e", "t", "u", "r", "n">>, "RETURN" >>,
      << <<"b", "r", "e", "a", "k">>, "BREAK" >>,
      << <<"c", "o", "n", "t", "i", "n", "u", "e">>, "CONTINUE" >>,
      << <<"p", "r", "i", "n", "t">>, "PRINT" >>,
      << <<"t", "r", "u", "e">>, "TRUE" >>,
      << <<"f", "a", "l", "s", "e">>, "FALSE" >> }

\* character classes of PADROES
Digitos == {"0", "1", "2", "3", "4", "5", "6", "7", "8", "9"}

Letras ==
    {"a", "b", "c", "d", "e", "f", "g", "h", "i", "j", "k", "l", "m",
     "n", "o", "p", "q", "r", "s", "t", "u", "v", "w", "x", "y", "z",
     "A", "B", "C", "D", "E", "F", "G", "H", "I", "J", "K", "L", "M",
     "N", "O", "P", "Q", "R", "S", "T", "U", "V", "W", "X", "Y", "Z", "_"}

OperadoresDuplos == { <<"=", "=">>, <<"!", "=">>, <<">", "=">>, <<"<", "=">> }

OperadoresSimples == {"+", "-", "*", "/", "<", ">"}

Pontuacao ==
    { <<"(", "LPAREN">>, <<")", "RPAREN">>, <<"{", "LBRACE">>, <<"}", "RBRACE">>,
      <<",", "VIRG">>, <<";", "PTO_V">> }

Brancos == {" ", "\t", "\r"}

NovaLinha == "\n"

\* the first position at or after p whose character is outside classe
RECURSIVE fim_da_corrida(_, _, _)
fim_da_corrida(s, p, classe) ==
    IF p <= Len(s) /\ s[p] \in classe THEN fim_da_corrida(s, p + 1, classe) ELSE p

Casou(grupo, fim) == [tipo |-> grupo, fim |-> fim]

grupo_da_pontuacao(c) == (CHOOSE par \in Pontuacao : par[1] = c)[2]

\* one match of REGEX at position p: the first alternative of PADROES that
\* matches there, each alternative taking its own longest match
Casamento(s, p) ==
    IF s[p] \in Digitos THEN Casou("NUM", fim_da_corrida(s, p + 1, Digitos))
    ELSE IF s[p] \in Letras
        THEN Casou("ID", fim_da_corrida(s, p + 1, Letras \cup Digitos))
    ELSE IF p < Len(s) /\ <<s[p], s[p + 1]>> \in OperadoresDuplos THEN Casou("OP", p + 2)
    ELSE IF s[p] \in OperadoresSimples THEN Casou("OP", p + 1)
    ELSE IF s[p] = "=" THEN Casou("ATRIB", p + 1)
    ELSE IF \E par \in Pontuacao : par[1] = s[p]
        THEN Casou(grupo_da_pontuacao(s[p]), p + 1)
    ELSE IF s[p] \in Brancos THEN Casou("WS", fim_da_corrida(s, p + 1, Brancos))
    ELSE IF s[p] = NovaLinha THEN Casou("NL", p + 1)
    ELSE Casou("OUTRO", p + 1)

ValorDoDigito ==
    [d \in Digitos |->
        CASE d = "0" -> 0 [] d = "1" -> 1 [] d = "2" -> 2 [] d = "3" -> 3
          [] d = "4" -> 4 [] d = "5" -> 5 [] d = "6" -> 6 [] d = "7" -> 7
          [] d = "8" -> 8 [] d = "9" -> 9]

\* int(txt) on a run of digits
RECURSIVE valor_inteiro(_)
valor_inteiro(txt) ==
    IF txt = <<>> THEN 0
    ELSE 10 * valor_inteiro(SubSeq(txt, 1, Len(txt) - 1)) + ValorDoDigito[txt[Len(txt)]]

tipo_da_palavra(txt) ==
    IF \E par \in PALAVRAS_RESERVADAS : par[1] = txt
    THEN (CHOOSE par \in PALAVRAS_RESERVADAS : par[1] = txt)[2]
    ELSE "ID"

GruposSemToken == {"WS", "NL", "OUTRO"}

\* the token the loop body appends for a match of the group tipo
token_do_casamento(tipo, txt, lin, col) ==
    IF tipo = "NUM" THEN Token("NUM", valor_inteiro(txt), lin, col)
    ELSE IF tipo = "ID" THEN Token(tipo_da_palavra(txt), txt, lin, col)
    ELSE Token(tipo, txt, lin, col)

tokens_apos(tipo, txt, toks, lin, col) ==
    IF tipo \in GruposSemToken THEN toks
    ELSE Append(toks, token_do_casamento(tipo, txt, lin, col))

linha_apos(tipo, lin) == IF tipo = "NL" THEN lin + 1 ELSE lin

\* a scanner whose newline resets the column to 1 instead of 0
coluna_apos_reinicia_em_um(tipo, txt, col) == (IF tipo = "NL" THEN 1 ELSE col) + Len(txt)

\* the column after the match: a newline resets it to 0 before the
\* common self.coluna += len(txt)
coluna_apos(tipo, txt, col) == (IF tipo = "NL" THEN 0 ELSE col) + Len(txt)

token_EOF(lin, col) == Token("EOF", Nenhum, lin, col)

MaxLen == 3          \* longest source text
MaxChamadas == 2     \* calls of analisar() on one scanner

Alfabeto == {"1", "i", "f", "=", "!", "<", " ", NovaLinha, "@", ";"}

Textos == UNION { [1..n -> Alfabeto] : n \in 0..MaxLen }

----------------------------------------------------------------------------
(* The state machine: one analyzer instance, called again and again *)

Self == [tabela_funcoes |-> tabela_funcoes,
         tabela_proceds |-> tabela_proceds,
         escopos |-> escopos]

Init ==
    /\ programa = <<>>
    /\ fase = "idle"
    /\ i = 1
    /\ tabela_funcoes = NovoAnalisador.tabela_funcoes
    /\ tabela_proceds = NovoAnalisador.tabela_proceds
    /\ escopos = NovoAnalisador.escopos
    /\ funcbodies_encontrados = {}
    /\ procbodies_encontrados = {}
    /\ resultado = "none"
    /\ sujo = FALSE
    /\ codigo = <<>>
    /\ tokens = <<>>
    /\ linha = 1
    /\ coluna = 1
    /\ pos = 1
    /\ lexfase = "nenhum"
    /\ chamadas = 0

\* the analyzer state s becomes the state of the instance
Instalar(s) ==
    /\ tabela_funcoes' = s.tabela_funcoes
    /\ tabela_proceds' = s.tabela_proceds
    /\ escopos' = s.escopos

\* entry of checar_programa(P): the environment is cleared
Iniciar ==
    /\ fase = "idle"
    /\ \E P \in Programas : programa' = P
    /\ Instalar(limpa_ambiente(Self))
    /\ fase' = "p1"
    /\ i' = 1
    /\ funcbodies_encontrados' = {}
    /\ procbodies_encontrados' = {}
    /\ resultado' = "none"
    /\ sujo' = (Len(escopos) > 1)
    /\ UNCHANGED lexico

\* r is the result of one element of the pass proxima: the exception ends the
\* call, otherwise the loop goes on
Avancar(r, proxima) ==
    /\ Instalar(r.self)
    /\ funcbodies_encontrados' = r.funcbodies
    /\ procbodies_encontrados' = r.procbodies
    /\ IF r.err # OK
       THEN fase' = "done" /\ resultado' = r.err /\ i' = i
       ELSE fase' = proxima /\ resultado' = resultado /\ i' = i + 1

\* one iteration of the first loop
PrimeiroPasse ==
    /\ fase = "p1"
    /\ i <= Len(programa)
    /\ Avancar(Saida(primeiro_passe_elem(Self, programa[i]),
                     funcbodies_encontrados, procbodies_encontrados), "p1")
    /\ UNCHANGED <<programa, sujo>>
    /\ UNCHANGED lexico

\* the first loop is exhausted: the second pass starts with empty body sets
FimPrimeiroPasse ==
    /\ fase = "p1"
    /\ i > Len(programa)
    /\ fase' = "p2"
    /\ i' = 1
    /\ funcbodies_encontrados' = {}
    /\ procbodies_encontrados' = {}
    /\ UNCHANGED <<programa, tabela_funcoes, tabela_proceds, escopos, resultado, sujo>>
    /\ UNCHANGED lexico

\* one iteration of the second loop
SegundoPasse ==
    /\ fase = "p2"
    /\ i <= Len(programa)
    /\ Avancar(segundo_passe_elem(Self, programa[i],
                                  funcbodies_encontrados, procbodies_encontrados), "p2")
    /\ UNCHANGED <<programa, sujo>>
    /\ UNCHANGED lexico

\* the second loop is exhausted
FimSegundoPasse ==
    /\ fase = "p2"
    /\ i > Len(programa)
    /\ fase' = "p3"
    /\ UNCHANGED <<programa, i, tabela_funcoes, tabela_proceds, escopos,
                   funcbodies_encontrados, procbodies_encontrados, resultado, sujo>>
    /\ UNCHANGED lexico

\* the closing loops over the signature tables, then the return
TerceiroPasse ==
    /\ fase = "p3"
    /\ fase' = "done"
    /\ resultado' = verificar_corpos(Self, funcbodies_encontrados, procbodies_encontrados)
    /\ UNCHANGED <<programa, i, tabela_funcoes, tabela_proceds, escopos,
                   funcbodies_encontrados, procbodies_encontrados, sujo>>
    /\ UNCHANGED lexico

\* checar_programa has returned or raised: its locals are gone, the
\* analyzer object stays as the call left it
Retornar ==
    /\ fase = "done"
    /\ fase' = "idle"
    /\ programa' = <<>>
    /\ i' = 1
    /\ funcbodies_encontrados' = {}
    /\ procbodies_encontrados' = {}
    /\ resultado' = "none"
    /\ sujo' = FALSE
    /\ UNCHANGED <<tabela_funcoes, tabela_proceds, escopos>>
    /\ UNCHANGED lexico

Next ==
    \/ Iniciar
    \/ PrimeiroPasse
    \/ FimPrimeiroPasse
    \/ SegundoPasse
    \/ FimSegundoPasse
    \/ TerceiroPasse
    \/ Retornar

Spec == Init /\ [][Next]_vars

----------------------------------------------------------------------------
(* The state machine of the scanner: one scanner object per text, its      *)
(* method analisar() called up to MaxChamadas times                        *)

SelfLexico == [codigo |-> codigo, tokens |-> tokens, linha |-> linha, coluna |-> coluna]

InstalarLexico(s) ==
    /\ codigo' = s.codigo
    /\ tokens' = s.tokens
    /\ linha' = s.linha
    /\ coluna' = s.coluna

\* lex = AnalisadorLexico(texto)
Construir ==
    /\ lexfase = "nenhum"
    /\ \E texto \in Textos : InstalarLexico(NovoLexico(texto))
    /\ lexfase' = "novo"
    /\ pos' = 1
    /\ chamadas' = 0
    /\ UNCHANGED semantico

\* entry of analisar(): finditer starts at the beginning of self.codigo; the
\* fields of the object are as the constructor or the previous call left them
Analisar ==
    /\ lexfase \in {"novo", "retornou", "erro"}
    /\ chamadas < MaxChamadas
    /\ lexfase' = "varrendo"
    /\ pos' = 1
    /\ chamadas' = chamadas + 1
    /\ UNCHANGED <<codigo, tokens, linha, coluna>>
    /\ UNCHANGED semantico

\* the loop body for the match of group tipo with text txt ending before fim
Consumir(tipo, txt, fim) ==
    IF tipo = "OUTRO"
    THEN /\ lexfase' = "erro"
         /\ UNCHANGED <<tokens, linha, coluna, pos>>
    ELSE /\ tokens' = tokens_apos(tipo, txt, tokens, linha, coluna)
         /\ linha' = linha_apos(tipo, linha)
         /\ coluna' = coluna_apos(tipo, txt, coluna)
         /\ pos' = fim
         /\ lexfase' = lexfase

ConsumirCasamento(m) == Consumir(m.tipo, SubSeq(codigo, pos, m.fim - 1), m.fim)

\* one iteration of the loop over finditer
Casar ==
    /\ lexfase = "varrendo"
    /\ pos <= Len(codigo)
    /\ ConsumirCasamento(Casamento(codigo, pos))
    /\ UNCHANGED <<codigo, chamadas>>
    /\ UNCHANGED semantico

\* finditer is exhausted: the EOF token is appended and self.tokens returned
FimAnalisar ==
    /\ lexfase = "varrendo"
    /\ pos > Len(codigo)
    /\ tokens' = Append(tokens, token_EOF(linha, coluna))
    /\ lexfase' = "retornou"
    /\ UNCHANGED <<codigo, linha, coluna, pos, chamadas>>
    /\ UNCHANGED semantico

NextLexico ==
    \/ Construir
    \/ Analisar
    \/ Casar
    \/ FimAnalisar

SpecLexico == Init /\ [][NextLexico]_vars

----------------------------------------------------------------------------
(* Vocabulary of the properties *)

MaxArgs == 2         \* longest argument list tried against a signature

Elem == programa[i]

\* the call stopped with an error while it was at element i
ParouEm(kinds) == fase = "done" /\ i <= Len(programa) /\ Elem.kind \in kinds

\* the call went through all three passes
Completou == fase = "done" /\ i > Len(programa)

\* a return occurs among cmds, at any depth
RECURSIVE ContemReturn(_)
ContemReturn(cmds) ==
    \E k \in 1..Len(cmds) :
        \/ cmds[k].kind = "return"
        \/ cmds[k].kind \in {"if", "while"} /\ ContemReturn(cmds[k].body)
        \/ cmds[k].kind = "if" /\ cmds[k].tem_else /\ ContemReturn(cmds[k].senao)

TemReturnDireto(cmds) == \E k \in 1..Len(cmds) : cmds[k].kind = "return"

\* no block of cmds declares a name twice in its own statement list
\* (ja: the names the block already holds, its parameters)
RECURSIVE SemRepeticao(_, _)
SemRepeticao(cmds, ja) ==
    /\ \A k \in 1..Len(cmds) : cmds[k].kind = "vardecl" => cmds[k].nome \notin ja
    /\ \A j, k \in 1..Len(cmds) :
          (j # k /\ cmds[j].kind = "vardecl" /\ cmds[k].kind = "vardecl")
              => cmds[j].nome # cmds[k].nome
    /\ \A k \in 1..Len(cmds) :
          /\ cmds[k].kind \in {"if", "while"} => SemRepeticao(cmds[k].body, {})
          /\ (cmds[k].kind = "if" /\ cmds[k].tem_else) => SemRepeticao(cmds[k].senao, {})

NomesDeParametros(ps) == { ps[k][2] : k \in 1..Len(ps) }

\* the node opens only blocks that declare each of their names once
BlocosSemRepeticao(elem) ==
    IF elem.kind \in {"funcbody", "procbody"}
    THEN /\ Cardinality(NomesDeParametros(elem.params)) = Len(elem.params)
         /\ SemRepeticao(elem.body, NomesDeParametros(elem.params))
    ELSE /\ SemRepeticao(elem.body, {})
         /\ (elem.kind = "if" /\ elem.tem_else) => SemRepeticao(elem.senao, {})

\* the global bindings the first pass makes for the running program
GlobaisDoPrimeiroPasse == primeiro_passe(NovoAnalisador, programa, 1).self.escopos[1]

Declarados == DOMAIN tabela_funcoes \cup DOMAIN tabela_proceds

ParametrosDe(nome) ==
    IF nome \in DOMAIN tabela_funcoes THEN tabela_funcoes[nome].params
    ELSE tabela_proceds[nome]

AridadeErrada(nome, args) == nome \in Declarados /\ Len(ParametrosDe(nome)) # Len(args)

Argumentos == { N, T, Var("u") }
ListasArgs == UNION { [1..n -> Argumentos] : n \in 0..MaxArgs }

Operadores == {"+", "-", "*", "/", "==", "!=", ">", "<", ">=", "<=", "&&", "||", "%"}
Operandos == { N, T, Var("x"), Var("y"), Var("u"), Unop("!", T), CallE("f", <<N>>) }

\* the table of the claim; "falha" stands for any error
TabelaDeReferencia(op, tl, tr) ==
    IF op \in {"+", "-", "*", "/"} THEN (IF tl = "int" /\ tr = "int" THEN "int" ELSE "falha")
    ELSE IF op \in {"==", "!=", ">", "<", ">=", "<="} THEN (IF tl = tr THEN "boolean" ELSE "falha")
    ELSE IF op \in {"&&", "||"} THEN
        (IF tl = "boolean" /\ tr = "boolean" THEN "boolean" ELSE "falha")
    ELSE "falha"

----------------------------------------------------------------------------
(* Properties *)

\* C1: checar_programa on the program of the __main__ example completes
\* without raising an error.
C1_ExemploAceito == (fase = "done" /\ programa = ExemploMain) => resultado = OK

\* C2: a vardecl whose name is bound only in enclosing scopes succeeds in every
\* nested context: checking a function/procedure body or an if/while, at top
\* level or inside a body, whose blocks each declare a name at most once never
\* ends with the duplicate-declaration error.
C2_ShadowingSucceeds ==
    (ParouEm({"if", "while", "funcbody", "procbody"}) /\ BlocosSemRepeticao(Elem))
        => resultado # DuplicateDeclaration

\* C3: a declared function's body without a return among its direct statements
\* fails with MissingReturn, also when its only returns sit in if/while branches.
C3_MissingReturn ==
    (/\ ParouEm({"funcbody"})
     /\ Elem.nome \in DOMAIN tabela_funcoes
     /\ ~TemReturnDireto(Elem.body))
        => resultado = MissingReturn

\* C4: the branches of a top-level if/while run in their own scope, so during
\* the second pass and the completeness check the global frame holds exactly
\* the bindings made by the first pass.
C4_GlobalFrameFixed ==
    fase \in {"p2", "p3"} => escopos[1] = GlobaisDoPrimeiroPasse

\* C5: no name is ever in both signature tables, ...
C5_Disjuntas == DOMAIN tabela_funcoes \cap DOMAIN tabela_proceds = {}

\* ... because a funcdecl or procdecl whose name is in either table is rejected
\* with the duplicate-signature error and leaves both tables as they were.
C5_Rejeita ==
    (/\ fase = "p1" /\ i <= Len(programa)
     /\ Elem.kind \in {"funcdecl", "procdecl"}
     /\ Elem.nome \in Declarados)
        => (/\ fase' = "done"
            /\ resultado' = DuplicateSignature
            /\ UNCHANGED <<tabela_funcoes, tabela_proceds>>)

\* C5: a name can never be registered as both a function and a procedure,
\* whichever declaration comes first; the key sets of the two tables are
\* disjoint in every reachable state.
C5_NomeUnico == []C5_Disjuntas /\ [][C5_Rejeita]_vars

C5_Witness ==
    /\ ParouEm({"funcdecl"})
    /\ resultado = DuplicateSignature
    /\ Elem.nome \in DOMAIN tabela_proceds

\* the second pass is about to check a call statement of wrong arity
ChamadaComando ==
    /\ fase = "p2" /\ i <= Len(programa)
    /\ Elem.kind = "call"
    /\ AridadeErrada(Elem.nome, Elem.args)

\* the second pass is about to check an assignment to a declared variable whose
\* right-hand side is a call of wrong arity
ChamadaEmExpressao ==
    /\ fase = "p2" /\ i <= Len(programa)
    /\ Elem.kind = "assign"
    /\ buscar_variavel(Self, Elem.nome) # Nenhum
    /\ Elem.expr.kind = "call"
    /\ AridadeErrada(Elem.expr.nome, Elem.expr.args)

\* C6 as stated: a call of wrong arity to a declared function or procedure
\* gives the wrong-number-of-arguments error whatever its arguments are, as a
\* statement and nested in an expression.
C6_Original ==
    fase = "idle" =>
        \A nome \in Declarados : \A args \in ListasArgs :
            AridadeErrada(nome, args) =>
                /\ _checar_chamada_como_comando(Self, nome, args) = WrongArgCount
                /\ avaliar_expressao_tipo(Self, CallE(nome, args)) = WrongArgCount

\* what a call of wrong arity gives when it is evaluated inside an expression
ErroEmExpressao(nome) ==
    IF nome \in DOMAIN tabela_funcoes THEN WrongArgCount ELSE ProcedureUsedAsValue

C6_Funcoes ==
    fase = "idle" =>
        \A nome \in Declarados : \A args \in ListasArgs :
            AridadeErrada(nome, args) =>
                /\ _checar_chamada_como_comando(Self, nome, args) = WrongArgCount
                /\ avaliar_expressao_tipo(Self, CallE(nome, args)) = ErroEmExpressao(nome)
                /\ avaliar_expressao_tipo(Self, Binop("+", N, CallE(nome, args)))
                       = ErroEmExpressao(nome)

C6_Passos ==
    /\ ChamadaComando => (fase' = "done" /\ resultado' = WrongArgCount)
    /\ ChamadaEmExpressao => (fase' = "done" /\ resultado' = ErroEmExpressao(Elem.expr.nome))

\* C6 (amended): a call of wrong arity gives the wrong-number-of-arguments
\* error before any argument is evaluated when it is a statement calling a
\* declared function or procedure, and when it is a call of a declared function
\* evaluated inside an expression; a call of a declared procedure evaluated
\* inside an expression gives the procedure-used-as-value error instead.
C6_AridadePrimeiro == []C6_Funcoes /\ [][C6_Passos]_vars

C6_Witness ==
    /\ ParouEm({"assign"})
    /\ Elem.expr = CallE("f", <<Var("u"), T>>)
    /\ resultado = WrongArgCount

\* C7: a binary expression whose operands have types int or boolean gets the
\* type of the reference table, and fails where the table has no type.
C7_TabelaBinop ==
    fase = "idle" =>
        \A op \in Operadores : \A l, r \in Operandos :
            LET tl == avaliar_expressao_tipo(Self, l)
                tr == avaliar_expressao_tipo(Self, r)
                t  == avaliar_expressao_tipo(Self, Binop(op, l, r))
                ref == TabelaDeReferencia(op, tl, tr)
            IN (tl \in Tipos /\ tr \in Tipos) =>
                   IF ref = "falha" THEN t \notin Tipos ELSE t = ref

C7_Witness ==
    /\ fase = "idle"
    /\ avaliar_expressao_tipo(Self, Var("x")) = "boolean"
    /\ avaliar_expressao_tipo(Self, Var("y")) = "int"

\* C8: a call completes successfully only if every declared function has a
\* funcbody node and every declared procedure has a procbody node; a call that
\* gets through the first two passes with a signature lacking its body node
\* fails with MissingBody.
C8_CorposCompletos ==
    LET TemCorpo(kind, nome) ==
            \E k \in 1..Len(programa) : programa[k].kind = kind /\ programa[k].nome = nome
        Completo == /\ \A f \in DOMAIN tabela_funcoes : TemCorpo("funcbody", f)
                    /\ \A q \in DOMAIN tabela_proceds : TemCorpo("procbody", q)
    IN /\ (fase = "done" /\ resultado = OK) => Completo
       /\ (Completou /\ ~Completo) => resultado = MissingBody

C8_Witness ==
    /\ Completou
    /\ resultado = MissingBody
    /\ DOMAIN tabela_proceds # {}

\* C9: the outcome of a call does not depend on the calls made before it on the
\* same analyzer: it is the outcome of the same program on a new analyzer.
C9_SemEstadoPersistente ==
    fase = "done" => resultado = checar_programa(NovoAnalisador, programa)

C9_Witness == fase = "done" /\ sujo /\ resultado = OK

\* C10: a declared procedure's body that contains a return fails with
\* ReturnInProcedure, whatever the return's expression is.
C10_ReturnInProcedure ==
    (/\ ParouEm({"procbody"})
     /\ Elem.nome \in DOMAIN tabela_proceds
     /\ ContemReturn(Elem.body))
        => resultado = ReturnInProcedure

\* vocabulary of the scanner's properties

NaoDecrescente(toks) ==
    \A j, k \in 1..Len(toks) : j < k => toks[j].linha <= toks[k].linha

UmEOFNoFim(toks) ==
    /\ Len(toks) >= 1
    /\ toks[Len(toks)].tipo = "EOF"
    /\ \A k \in 1..(Len(toks) - 1) : toks[k].tipo # "EOF"

CaracteresValidos ==
    Digitos \cup Letras \cup OperadoresSimples \cup Brancos \cup
    {"=", "(", ")", "{", "}", ",", ";", NovaLinha}

\* the character at p belongs to no valid pattern ("!" only opens "!=")
CaractereInvalido(s, p) ==
    /\ s[p] \notin CaracteresValidos
    /\ ~(s[p] = "!" /\ p < Len(s) /\ s[p + 1] = "=")

TemInvalido(s) == \E p \in 1..Len(s) : CaractereInvalido(s, p)

PrimeiroInvalido(s) == CHOOSE p \in 1..Len(s) :
    CaractereInvalido(s, p) /\ \A q \in 1..(p - 1) : ~CaractereInvalido(s, q)

\* C11: every call of analisar() ends in exactly one of two ways: it returns
\* a token list with non-decreasing line numbers and exactly one EOF token, the
\* last one, or it raises the lexical error; it raises iff the text holds a
\* character of no valid pattern, and stops at the first such character.
C11_VarreduraTotal ==
    /\ lexfase = "retornou" =>
          (NaoDecrescente(tokens) /\ UmEOFNoFim(tokens) /\ ~TemInvalido(codigo))
    /\ lexfase = "erro" => (TemInvalido(codigo) /\ pos = PrimeiroInvalido(codigo))

\* C11 holds for the first call on a new scanner
C11_PrimeiraChamada == chamadas <= 1 => C11_VarreduraTotal

\* 1 plus the number of newlines before position p
LinhaDe(s, p) == 1 + Cardinality({ q \in 1..(p - 1) : s[q] = NovaLinha })

\* the position of the last newline before p, 0 when p is on the first line
RECURSIVE UltimaQuebra(_, _)
UltimaQuebra(s, p) ==
    IF p <= 1 THEN 0
    ELSE IF s[p - 1] = NovaLinha THEN p - 1
    ELSE UltimaQuebra(s, p - 1)

\* the 1-based column of position p within its line
ColunaDe(s, p) == p - UltimaQuebra(s, p)

\* during the first call the counters are the position of the next character
C13_Contadores ==
    (chamadas = 1 /\ lexfase = "varrendo")
        => (linha = LinhaDe(codigo, pos) /\ coluna = ColunaDe(codigo, pos))

UltimoToken(toks) == toks[Len(toks)]

\* a token appended during the first call carries the position of the
\* character at pos, where its text starts
C13_Emissao ==
    (chamadas = 1 /\ Len(tokens') = Len(tokens) + 1) =>
        /\ UltimoToken(tokens').linha = LinhaDe(codigo, pos)
        /\ UltimoToken(tokens').coluna = ColunaDe(codigo, pos)
        /\ UltimoToken(tokens').tipo \notin {"NUM", "EOF"}
              => UltimoToken(tokens').valor = SubSeq(codigo, pos, pos' - 1)
        /\ UltimoToken(tokens').tipo = "EOF" => pos = Len(codigo) + 1

\* C13: on a new scanner every emitted token's coluna is the 1-based column of
\* its first character within its line and its linha is 1 plus the number of
\* newlines before it; the first character after a newline has column 1.
C13_LinhaEColuna == []C13_Contadores /\ [][C13_Emissao]_vars

\* a token that starts at the second column of the second line was emitted
C13_Witness ==
    /\ chamadas = 1
    /\ lexfase = "retornou"
    /\ \E k \in 1..Len(tokens) :
          tokens[k].tipo = "NUM" /\ tokens[k].linha = 2 /\ tokens[k].coluna = 2

\* the nodes that only bind a name: signatures and globals without initializer
SoDeclara(elem) ==
    \/ elem.kind \in {"funcdecl", "procdecl"}
    \/ elem.kind = "vardecl" /\ elem.expr.kind = "none"

\* P with its binding nodes moved to the front, every other order kept
DeclaracoesPrimeiro(P) ==
    SelectSeq(P, LAMBDA e : SoDeclara(e)) \o SelectSeq(P, LAMBDA e : ~SoDeclara(e))

\* every declaration node of the program is bound as the node says
TodasVinculadas ==
    \A k \in 1..Len(programa) :
        /\ programa[k].kind = "vardecl" =>
              /\ programa[k].nome \in DOMAIN escopos[1]
              /\ escopos[1][programa[k].nome] = programa[k].tipo
        /\ programa[k].kind = "funcdecl" =>
              /\ programa[k].nome \in DOMAIN tabela_funcoes
              /\ tabela_funcoes[programa[k].nome] =
                     [tipo |-> programa[k].tipo, params |-> programa[k].params]
        /\ programa[k].kind = "procdecl" =>
              /\ programa[k].nome \in DOMAIN tabela_proceds
              /\ tabela_proceds[programa[k].nome] = programa[k].params

\* the node at position k uses a name that a node after k declares
UsaDeclaracaoPosterior(P, k) ==
    \E j \in (k + 1)..Len(P) :
        /\ P[j].kind \in {"vardecl", "funcdecl", "procdecl"}
        /\ \/ P[k].kind \in {"assign", "call", "funcbody", "procbody"}
                 /\ P[k].nome = P[j].nome
           \/ P[k].kind \in {"assign", "vardecl"} /\ P[k].expr.kind = "call"
                 /\ P[k].expr.nome = P[j].nome

\* C12 (binding): while the second pass and the closing loops run, every
\* vardecl, funcdecl and procdecl node of the sequence is bound, wherever it
\* stands in the sequence.
C12_Vinculadas == fase \in {"p2", "p3"} => TodasVinculadas

\* C12 (position): a call whose first pass succeeds ends as the call on the
\* same program with its declarations moved to the front ends.
C12_Posicao ==
    (fase = "done" /\ primeiro_passe(NovoAnalisador, programa, 1).err = OK)
        => resultado = checar_programa(NovoAnalisador, DeclaracoesPrimeiro(programa))

\* C12: all declarations are bound by the first pass before the second pass
\* checks anything, so a use is checked against its declaration as if the
\* declaration came first, also when the declaring node comes later.
C12_ReferenciasAdiante == C12_Vinculadas /\ C12_Posicao

\* a program was accepted whose first node uses names declared after it
C12_Witness ==
    /\ fase = "done"
    /\ resultado = OK
    /\ Len(programa) > 1
    /\ programa[1].kind = "vardecl"
    /\ programa[1].expr.kind # "none"
    /\ UsaDeclaracaoPosterior(programa, 1)
    /\ \E k \in 2..Len(programa) :
          programa[k].kind = "funcbody" /\ UsaDeclaracaoPosterior(programa, k)

\* the bindings of the first pass are all in the bottom frame
FundoGlobal ==
    \A n \in DOMAIN GlobaisDoPrimeiroPasse :
        n \in DOMAIN escopos[1] /\ escopos[1][n] = GlobaisDoPrimeiroPasse[n]

\* the stack never loses its bottom frame, and holds nothing else between
\* top-level nodes and after a successful return
C14_Profundidade ==
    /\ Len(escopos) >= 1
    /\ Len(escopos) = 1 => fechar_escopo(Self) = Self
    /\ fase \in {"p1", "p2", "p3"} => Len(escopos) = 1
    /\ (fase = "done" /\ resultado = OK) => Len(escopos) = 1
    /\ fase \in {"p2", "p3", "done"} =>
          (primeiro_passe(NovoAnalisador, programa, 1).err = OK => FundoGlobal)

\* checking a body that raises nothing leaves the scope stack as it found it
C14_CorpoNaoVaza ==
    (fase = "p2" /\ i <= Len(programa) /\ Elem.kind \in {"funcbody", "procbody"}
        /\ fase' = "p2")
        => escopos' = escopos

\* C14: the scope stack always has its bottom, global, frame; pushes and pops
\* are balanced, so the depth is 1 at the start of every top-level node and
\* when checar_programa returns successfully, and the parameters and locals of
\* a body are visible to no node checked after the body.
C14_EscoposEquilibrados == []C14_Profundidade /\ [][C14_CorpoNaoVaza]_vars

\* an accepted program whose function body declares a local boolean x and is
\* followed by an assignment of an int to the global int x
C14_Witness ==
    /\ fase = "done"
    /\ resultado = OK
    /\ \E k \in 1..(Len(programa) - 1) :
          /\ programa[k].kind = "funcbody"
          /\ programa[k].params # <<>>
          /\ \E j \in 1..Len(programa[k].body) :
                programa[k].body[j] = VarDecl("boolean", "x", NoExpr)
          /\ programa[k + 1] = Assign("x", CallE("f", <<N>>))

\* the expression e holds a call of nome
RECURSIVE ExprChama(_, _)
ExprChama(e, nome) ==
    IF e.kind = "call"
    THEN e.nome = nome \/ \E k \in 1..Len(e.args) : ExprChama(e.args[k], nome)
    ELSE IF e.kind = "unop" THEN ExprChama(e.expr, nome)
    ELSE IF e.kind = "binop" THEN ExprChama(e.left, nome) \/ ExprChama(e.right, nome)
    ELSE FALSE

\* a statement of cmds, at any depth, holds a call of nome
RECURSIVE CmdsChamam(_, _)
CmdsChamam(cmds, nome) ==
    \E k \in 1..Len(cmds) :
        \/ cmds[k].kind \in {"assign", "vardecl", "return", "print"}
              /\ ExprChama(cmds[k].expr, nome)
        \/ cmds[k].kind = "call"
              /\ (cmds[k].nome = nome
                    \/ \E j \in 1..Len(cmds[k].args) : ExprChama(cmds[k].args[j], nome))
        \/ cmds[k].kind \in {"if", "while"}
              /\ (ExprChama(cmds[k].cond, nome) \/ CmdsChamam(cmds[k].body, nome))
        \/ cmds[k].kind = "if" /\ cmds[k].tem_else /\ CmdsChamam(cmds[k].senao, nome)

\* parameter lists a declaration could have recorded
ListasDeParametros ==
    { <<>>, PA, PBC, << <<"boolean", "a">> >>, << <<"int", "c">>, <<"int", "a">> >> }

\* the analyzer self with ps recorded as the declared parameters of nome
ComParametros(self, nome, ps) ==
    IF nome \in DOMAIN self.tabela_funcoes
    THEN [self EXCEPT !.tabela_funcoes[nome].params = ps]
    ELSE [self EXCEPT !.tabela_proceds[nome] = ps]

\* the second loop is at a body whose declaration exists and which does not
\* call itself
NoCorpoDeclarado ==
    /\ fase = "p2"
    /\ i <= Len(programa)
    /\ \/ Elem.kind = "funcbody" /\ Elem.nome \in DOMAIN tabela_funcoes
       \/ Elem.kind = "procbody" /\ Elem.nome \in DOMAIN tabela_proceds
    /\ ~CmdsChamam(Elem.body, Elem.nome)

ErroDoCorpo(self) == _checar_corpo_funcional(self, Elem, Elem.kind = "funcbody").err

\* the step that checks the body ends as the check of the same body ends
\* under any other declared parameter list, and changes no signature
C15_Passo ==
    NoCorpoDeclarado =>
        /\ \A ps \in ListasDeParametros :
              IF ErroDoCorpo(ComParametros(Self, Elem.nome, ps)) = OK
              THEN fase' = "p2"
              ELSE fase' = "done"
                   /\ resultado' = ErroDoCorpo(ComParametros(Self, Elem.nome, ps))
        /\ tabela_funcoes' = tabela_funcoes
        /\ tabela_proceds' = tabela_proceds

\* a call's arity is the length of the declared list, also after a body
\* with another list was checked
C15_Chamadas ==
    \A nome \in funcbodies_encontrados \cup procbodies_encontrados :
        \A args \in ListasArgs :
            (_checar_chamada_como_comando(Self, nome, args) = WrongArgCount)
                <=> (Len(args) # Len(ParametrosDe(nome)))

\* C15: the body checker binds the parameter list the funcbody/procbody node
\* re-states and never compares it with the declared list, while calls are
\* checked against the declared list only: the outcome of a body does not
\* depend on the parameters its declaration recorded.
C15_ListaDoCorpo == []C15_Chamadas /\ [][C15_Passo]_vars

\* an accepted program: the body of f re-states (boolean b, int c) for the
\* declared (int a), and f is then called with one int
C15_Witness ==
    /\ fase = "done"
    /\ resultado = OK
    /\ \E k \in 1..Len(programa) :
          /\ programa[k].kind = "funcbody"
          /\ programa[k].nome \in DOMAIN tabela_funcoes
          /\ programa[k].params = PBC
          /\ tabela_funcoes[programa[k].nome].params = PA
    /\ \E k \in 1..Len(programa) : programa[k] = Assign("x", CallE("f", <<N>>))

====
